---- MODULE Spec2Model ----
(***************************************************************************)
(* State-machine model of rtcm-mqtt-streamer.py: the RTCM3 frame reader    *)
(* (read_rtcm_packet), the timestamper (get_timestamp_ms_bytes), and the   *)
(* main program's startup, streaming loop and try/except/finally shutdown. *)
(* The serial device, the wall clock and the MQTT client library are the   *)
(* environment: their behaviour is drawn nondeterministically.             *)
(***************************************************************************)
EXTENDS Integers, Sequences, FiniteSets, TLC

\* ------------------------------------------------------------------ bounds
\* Largest number of complete frames in a generated byte stream.
MaxFrames == 2

\* ------------------------------------------------------- program constants
\* b"\xd3", the RTCMv3 preamble byte.
Preamble == 211
\* 0x3FF, the mask keeping the low 10 bits of the length field.
LengthMask == 1023
\* serial_port.read(2): width of the reserved+length field.
LengthFieldBytes == 2
\* Mutation of CrcBytes: one check byte is left unread.
CrcBytesShort == 3 - 1
\* serial_port.read(3): width of the CRC-24Q.
CrcBytes == 3
\* get_timestamp_ms_bytes(16).
TimestampBytes == 16
\* Mutation of PublishQos: qos one lower, fire-and-forget delivery.
PublishQosZero == 1 - 1
\* publish(..., qos=1).
PublishQos == 1
\* int(time.time() * 1000): milliseconds per second.
MsPerSecond == 1000

\* ------------------------------------------------------------ byte helpers
Min(a, b) == IF a < b THEN a ELSE b

\* The clock is modelled in microseconds; time.time() is that many seconds.
MicrosPerSecond == 1000000

\* Wall-clock readings (in microseconds) the environment can return, in any
\* order: 258.5 ms and 513.25 ms after the epoch.
ClockValues == {258500, 513250}

\* int.from_bytes(bs, byteorder="big"); the empty byte string decodes to 0.
RECURSIVE from_bytes_big(_)
from_bytes_big(bs) ==
    IF bs = <<>> THEN 0
    ELSE from_bytes_big(SubSeq(bs, 1, Len(bs) - 1)) * 256 + bs[Len(bs)]

\* Mutation of message_length: the reserved bits are not masked off.
message_length_unmasked(reserved_and_length) ==
    from_bytes_big(reserved_and_length)

\* Mutation of message_length: only the low byte of the length is kept.
message_length_low8(reserved_and_length) ==
    from_bytes_big(reserved_and_length) % 256

\* Line 84-86: int.from_bytes(reserved_and_length, "big") & 0x3FF.
message_length_of(reserved_and_length) ==
    from_bytes_big(reserved_and_length) % (LengthMask + 1)

\* int.to_bytes(n_bytes, byteorder="big") of a non-negative integer: the
\* n_bytes low base-256 digits, most significant first.
RECURSIVE to_bytes_big(_, _)
to_bytes_big(v, n_bytes) ==
    IF n_bytes = 0 THEN <<>>
    ELSE Append(to_bytes_big(v \div 256, n_bytes - 1), v % 256)

\* Mutation of to_bytes_big: least significant byte first.
RECURSIVE to_bytes_little(_, _)
to_bytes_little(v, n_bytes) ==
    IF n_bytes = 0 THEN <<>>
    ELSE <<v % 256>> \o to_bytes_little(v \div 256, n_bytes - 1)

\* to_bytes raises OverflowError when the value needs more than n_bytes.
RECURSIVE fits_in(_, _)
fits_in(v, n_bytes) ==
    IF n_bytes = 0 THEN v = 0 ELSE fits_in(v \div 256, n_bytes - 1)

\* Line 67: timestamp_ms = int(time.time() * 1000), for a clock reading
\* of clock_us microseconds; int() truncates the fraction.
timestamp_ms_of(clock_us) == (clock_us * MsPerSecond) \div MicrosPerSecond

\* Mutation of get_timestamp_ms_bytes: little-endian encoding.
get_timestamp_ms_bytes_little(clock_us, n_bytes) ==
    to_bytes_little(timestamp_ms_of(clock_us), n_bytes)

\* Lines 66-68: get_timestamp_ms_bytes(n_bytes) when the clock reads clock_us.
get_timestamp_ms_bytes(clock_us, n_bytes) ==
    to_bytes_big(timestamp_ms_of(clock_us), n_bytes)

\* Lines 54-63: mtls_cert_path; "ok" or the first file found missing.
CertNames == <<"device.crt", "device.key", "AmazonRootCA1.pem">>

\* Mutation of mtls_cert_path: the root certificate is not looked for.
mtls_cert_path_no_root(files) ==
    IF {"device.crt", "device.key"} \subseteq files THEN "ok"
    ELSE IF "device.crt" \notin files THEN "device.crt" ELSE "device.key"

mtls_cert_path(files) ==
    IF \A i \in 1..Len(CertNames) : CertNames[i] \in files THEN "ok"
    ELSE CertNames[CHOOSE i \in 1..Len(CertNames) :
                     /\ CertNames[i] \notin files
                     /\ \A j \in 1..(i - 1) : CertNames[j] \in files]

\* ------------------------------------------------------- input byte streams
\* Complete frames: a one-byte payload that is 0xD3; all reserved bits set
\* with a zero-length payload and 0xD3 in the check value.
FrameSet ==
    { <<211, 0, 1, 211, 1, 2, 3>>,
      <<211, 252, 0, 211, 0, 0>> }

\* Stray bytes, none equal to 0xD3.
GarbageSet == { <<>>, <<255, 0>> }

\* What the stream ends with after its last complete frame: nothing, or a
\* frame cut short in its length field, payload or check value.
TailSet ==
    { <<>>, <<211, 4>>, <<211, 0, 2, 7>>, <<211, 0, 1, 9, 1>> }

RECURSIVE Concat(_)
Concat(ss) == IF ss = <<>> THEN <<>> ELSE Head(ss) \o Concat(Tail(ss))

\* The stream made of the n frames fs[i], with the stray bytes g in front of
\* the last of them (in front of the tail when there is no frame), then the
\* tail.
BuildStream(n, g, fs, tail) ==
    Concat([i \in 1..n |-> (IF i = n THEN g ELSE <<>>) \o fs[i]])
        \o (IF n = 0 THEN g ELSE <<>>) \o tail


\* -------------------------------------------------------------------- state
VARIABLES
    pc,                  \* position of the main program
    certFiles,           \* files found in --cert-path by mtls_cert_path
    stream,              \* every byte the serial device will ever deliver
    eofMode,             \* what serial read does once the stream is exhausted
                         \* ("live" until the device has run dry)
    pos,                 \* read cursor: number of bytes consumed so far
    ser,                 \* serial port handle: "unopened", "open", "closed"
    preamble,            \* read_rtcm_packet local
    reserved_and_length, \* read_rtcm_packet local
    message_length,      \* read_rtcm_packet local
    message,             \* read_rtcm_packet local
    rtcm_packet,         \* main-loop local (line 142)
    payload,             \* main-loop local (line 143)
    session,             \* MQTT session: "none", "connected", "lost", "closed"
    loop_running,        \* background network thread started (loop_start)
    outQueue,            \* client's outbound queue of accepted payloads
    delivered,           \* payloads the broker has received, in order
    discarded,           \* history: bytes dropped by preamble scans
    framed,              \* history: frames returned by read_rtcm_packet
    clockLog,            \* history: clock reads of get_timestamp_ms_bytes
    published,           \* history: payloads passed to publish
    lastOffline,         \* history: index of the latest publish call made
                         \* while the session was not connected (0: none)
    left_from,           \* pc at which the try body was left ("" if not)
    left_via,            \* "none", "exception" or "interrupt"
    disconnect_attempted,\* mqtt_client.disconnect() was called
    close_attempted,     \* ser.close() was called
    exit_status          \* process exit status, -1 while running

srcVars    == <<stream, eofMode>>
readerVars == <<preamble, reserved_and_length, message_length, message>>
mainVars   == <<rtcm_packet, payload>>
netVars    == <<session, loop_running, outQueue, delivered>>
histVars   == <<discarded, framed, clockLog, published>>
endVars    == <<left_from, left_via, disconnect_attempted, close_attempted,
                exit_status>>
vars == <<pc, certFiles, stream, eofMode, pos, ser, preamble,
          reserved_and_length, message_length, message, rtcm_packet, payload,
          session, loop_running, outQueue, delivered, discarded,
          framed, clockLog, published, lastOffline, left_from, left_via,
          disconnect_attempted, close_attempted, exit_status>>

\* Serial read at an exhausted stream: pyserial with no timeout blocks on a
\* silent live device ("block") and raises SerialException on a device that
\* disappeared ("raise"); a source with end-of-file semantics returns the
\* bytes it has, possibly none ("short").
EofModes == {"block", "raise", "short"}

StreamingPcs == {"scan", "readlen", "readmsg", "readcrc", "timestamp", "publish"}
\* Positions inside the try block (lines 137-145).
TryPcs == {"flush", "loop_start", "sleep"} \cup StreamingPcs
DrainingPcs == {"except_exception", "except_kbd", "finally_disconnect",
                "finally_close"}

\* The program before its first line has run, whatever the device holds.
InitRest ==
    /\ pc = "parse_args"
    /\ certFiles = {}
    /\ eofMode = "live"
    /\ pos = 0
    /\ ser = "unopened"
    /\ preamble = <<>>
    /\ reserved_and_length = <<>>
    /\ message_length = 0
    /\ message = <<>>
    /\ rtcm_packet = <<>>
    /\ payload = <<>>
    /\ session = "none"
    /\ loop_running = FALSE
    /\ outQueue = <<>>
    /\ delivered = <<>>
    /\ discarded = <<>>
    /\ framed = <<>>
    /\ clockLog = <<>>
    /\ published = <<>>
    /\ lastOffline = 0
    /\ left_from = ""
    /\ left_via = "none"
    /\ disconnect_attempted = FALSE
    /\ close_attempted = FALSE
    /\ exit_status = -1

Init ==
    /\ \E n \in 0..MaxFrames :
         \E g \in GarbageSet, fs \in [1..n -> FrameSet], tail \in TailSet :
             stream = BuildStream(n, g, fs, tail)
    /\ InitRest

\* ------------------------------------------------------------------ startup
\* Line 121: parse_args runs mtls_cert_path on --cert-path; argparse turns
\* its ArgumentTypeError into exit status 2.
ParseArgs ==
    /\ pc = "parse_args"
    /\ \E files \in SUBSET {CertNames[i] : i \in 1..Len(CertNames)} :
         /\ certFiles' = files
         /\ IF mtls_cert_path(files) = "ok"
            THEN pc' = "open" /\ exit_status' = exit_status
            ELSE pc' = "stopped" /\ exit_status' = 2
    /\ UNCHANGED <<lastOffline, srcVars, pos, ser, readerVars, mainVars, netVars, histVars,
                   left_from, left_via, disconnect_attempted, close_attempted>>

\* Line 125: serial.Serial(port, baud) opens the device.
OpenSerial ==
    /\ pc = "open"
    /\ ser' = "open"
    /\ pc' = "connect"
    /\ UNCHANGED <<lastOffline, certFiles, srcVars, pos, readerVars, mainVars, netVars,
                   histVars, endVars>>

\* Line 125 raising SerialException: outside the try, the process dies.
OpenSerialFails ==
    /\ pc = "open"
    /\ pc' = "stopped"
    /\ exit_status' = 1
    /\ UNCHANGED <<lastOffline, certFiles, srcVars, pos, ser, readerVars, mainVars, netVars,
                   histVars, left_from, left_via, disconnect_attempted,
                   close_attempted>>

\* Line 134 (create_client, lines 31-51): client.connect succeeds.
CreateClient ==
    /\ pc = "connect"
    /\ session' = "connected"
    /\ pc' = "flush"
    /\ UNCHANGED <<lastOffline, certFiles, srcVars, pos, ser, readerVars, mainVars,
                   loop_running, outQueue, delivered, histVars,
                   endVars>>

\* Line 49 raising (refused, TLS failure): outside the try, the process dies
\* with the serial port still open.
CreateClientFails ==
    /\ pc = "connect"
    /\ pc' = "stopped"
    /\ exit_status' = 1
    /\ UNCHANGED <<lastOffline, certFiles, srcVars, pos, ser, readerVars, mainVars, netVars,
                   histVars, left_from, left_via, disconnect_attempted,
                   close_attempted>>

\* KeyboardInterrupt at lines 125-134: no handler is in scope.
StartupInterrupt ==
    /\ pc \in {"open", "connect"}
    /\ pc' = "stopped"
    /\ exit_status' = 130
    /\ UNCHANGED <<lastOffline, certFiles, srcVars, pos, ser, readerVars, mainVars, netVars,
                   histVars, left_from, left_via, disconnect_attempted,
                   close_attempted>>

\* Mutation of StepAfter: the timestamp is taken before the frame is read.
StepAfterTimestampFirst(p) ==
    CASE p = "flush"      -> "loop_start"
      [] p = "loop_start" -> "sleep"
      [] p = "sleep"      -> "timestamp"
      [] p = "timestamp"  -> "scan"
      [] p = "readcrc"    -> "publish"
      [] p = "publish"    -> "timestamp"

\* Mutation of StepAfter: the loop jumps back to the timestamp line, so the
\* frame already published is stamped and published again.
StepAfterRepublish(p) ==
    CASE p = "flush"      -> "loop_start"
      [] p = "loop_start" -> "sleep"
      [] p = "sleep"      -> "scan"
      [] p = "readcrc"    -> "timestamp"
      [] p = "timestamp"  -> "publish"
      [] p = "publish"    -> "timestamp"

\* Mutation of StepAfter: the loop is entered right after loop_start, with
\* no settling interval.
StepAfterNoSettle(p) ==
    CASE p = "flush"      -> "loop_start"
      [] p = "loop_start" -> "scan"
      [] p = "sleep"      -> "scan"
      [] p = "readcrc"    -> "timestamp"
      [] p = "timestamp"  -> "publish"
      [] p = "publish"    -> "scan"

\* Normal control flow of the try body (lines 137-145): flushOutput,
\* loop_start, sleep, then forever read, timestamp, publish.
StepAfter(p) ==
    CASE p = "flush"      -> "loop_start"
      [] p = "loop_start" -> "sleep"
      [] p = "sleep"      -> "scan"
      [] p = "readcrc"    -> "timestamp"
      [] p = "timestamp"  -> "publish"
      [] p = "publish"    -> "scan"

\* Line 137: ser.flushOutput().
FlushOutput ==
    /\ pc = "flush"
    /\ pc' = StepAfter(pc)
    /\ UNCHANGED <<lastOffline, certFiles, srcVars, pos, ser, readerVars, mainVars, netVars,
                   histVars, endVars>>

\* Line 138: mqtt_client.loop_start() starts the background network thread.
LoopStart ==
    /\ pc = "loop_start"
    /\ loop_running' = TRUE
    /\ pc' = StepAfter(pc)
    /\ UNCHANGED <<lastOffline, certFiles, srcVars, pos, ser, readerVars, mainVars, session,
                   outQueue, delivered, histVars, endVars>>

\* Line 139: time.sleep(1).
Sleep ==
    /\ pc = "sleep"
    /\ pc' = StepAfter(pc)
    /\ UNCHANGED <<lastOffline, certFiles, srcVars, pos, ser, readerVars, mainVars, netVars,
                   histVars, endVars>>


\* --------------------------------------------------------- read_rtcm_packet
\* Bytes the device has still to deliver.
Avail == Len(stream) - pos

\* serial_port.read(n) returns: the n bytes are there, or the source has
\* end-of-file semantics and hands back what is left.
ReadReturns(n) == Avail >= n \/ eofMode = "short"

\* Number of bytes the read at position p asks for.
Wanted(p) ==
    CASE p = "scan"    -> 1
      [] p = "readlen" -> LengthFieldBytes
      [] p = "readmsg" -> message_length
      [] p = "readcrc" -> CrcBytes

\* The device has no more bytes for the pending read of line 75, 83, 89 or
\* 92: from now on it is silent, gone, or at end of file.
DeviceEnds ==
    /\ pc \in {"scan", "readlen", "readmsg", "readcrc"}
    /\ eofMode = "live"
    /\ Avail < Wanted(pc)
    /\ eofMode' \in EofModes
    /\ UNCHANGED <<lastOffline, pc, certFiles, stream, pos, ser, readerVars, mainVars,
                   netVars, histVars, endVars>>

\* serial_port.read(n): the next n bytes, fewer only at end of stream.
serial_read(n) == SubSeq(stream, pos + 1, pos + Min(n, Avail))

\* Mutation of is_preamble: any byte starts a frame (no resynchronisation).
is_preamble_any(b) == b # <<>>

\* Line 77: preamble == b"\xd3".
is_preamble(b) == b = <<Preamble>>

\* Lines 75-77, byte is not the preamble: it is dropped and the scan loops.
ScanSkip ==
    /\ pc = "scan"
    /\ ReadReturns(1)
    /\ serial_read(1) # <<>>
    /\ ~is_preamble(serial_read(1))
    /\ preamble' = serial_read(1)
    /\ pos' = pos + 1
    /\ discarded' = discarded \o serial_read(1)
    /\ pc' = "scan"
    /\ UNCHANGED <<lastOffline, certFiles, srcVars, ser, reserved_and_length, message_length,
                   message, mainVars, netVars, framed, clockLog, published,
                   endVars>>

\* Lines 75-77, read(1) returned b"" (exhausted end-of-file source): b"" is
\* not the preamble, so the scan loops without consuming anything.
ScanEmpty ==
    /\ pc = "scan"
    /\ ReadReturns(1)
    /\ serial_read(1) = <<>>
    /\ ~is_preamble(serial_read(1))
    /\ preamble' = <<>>
    /\ pc' = "scan"
    /\ UNCHANGED <<lastOffline, certFiles, srcVars, pos, ser, reserved_and_length,
                   message_length, message, mainVars, netVars, histVars,
                   endVars>>

\* Lines 75-79, byte is 0xD3: the scan ends.
ScanFound ==
    /\ pc = "scan"
    /\ ReadReturns(1)
    /\ is_preamble(serial_read(1))
    /\ preamble' = serial_read(1)
    /\ pos' = pos + 1
    /\ pc' = "readlen"
    /\ UNCHANGED <<lastOffline, certFiles, srcVars, ser, reserved_and_length, message_length,
                   message, mainVars, netVars, histVars, endVars>>

\* Lines 83-86: the reserved+length field and the decoded payload length.
ReadLength ==
    /\ pc = "readlen"
    /\ ReadReturns(LengthFieldBytes)
    /\ reserved_and_length' = serial_read(LengthFieldBytes)
    /\ message_length' = message_length_of(serial_read(LengthFieldBytes))
    /\ pos' = pos + Len(serial_read(LengthFieldBytes))
    /\ pc' = "readmsg"
    /\ UNCHANGED <<lastOffline, certFiles, srcVars, ser, preamble, message, mainVars,
                   netVars, histVars, endVars>>

\* Line 89: the payload.
ReadMessage ==
    /\ pc = "readmsg"
    /\ ReadReturns(message_length)
    /\ message' = serial_read(message_length)
    /\ pos' = pos + Len(serial_read(message_length))
    /\ pc' = "readcrc"
    /\ UNCHANGED <<lastOffline, certFiles, srcVars, ser, preamble, reserved_and_length,
                   message_length, mainVars, netVars, histVars, endVars>>

\* Lines 92-94 and the assignment of line 142: the check value is read and
\* the concatenation is returned to the main loop.
ReadCrc ==
    /\ pc = "readcrc"
    /\ ReadReturns(CrcBytes)
    /\ LET crc == serial_read(CrcBytes)
           packet == preamble \o reserved_and_length \o message \o crc
       IN /\ rtcm_packet' = packet
          /\ pos' = pos + Len(crc)
          /\ framed' = Append(framed, [frame |-> packet, endAt |-> pos + Len(crc)])
    /\ pc' = StepAfter(pc)
    /\ UNCHANGED <<lastOffline, certFiles, srcVars, ser, readerVars, payload, netVars,
                   discarded, clockLog, published, endVars>>

\* Any of the reads of lines 75, 83, 89, 92 raising SerialException because
\* the device is gone; the exception leaves read_rtcm_packet and is caught
\* at line 146.
ReadRaises ==
    /\ pc \in {"scan", "readlen", "readmsg", "readcrc"}
    /\ eofMode = "raise"
    /\ Avail < Wanted(pc)
    /\ pos' = Len(stream)
    /\ pc' = "except_exception"
    /\ left_from' = pc
    /\ left_via' = "exception"
    /\ UNCHANGED <<lastOffline, certFiles, srcVars, ser, readerVars, mainVars, netVars,
                   histVars, disconnect_attempted, close_attempted, exit_status>>

\* ------------------------------------------------- timestamp and publish
\* Line 143: the clock is read and the payload assembled.  to_bytes raises
\* OverflowError when the value does not fit (caught at line 146).
TakeTimestamp ==
    /\ pc = "timestamp"
    /\ \E t \in ClockValues :
         /\ clockLog' = Append(clockLog,
                [clock_us |-> t, framesDone |-> Len(framed), cursor |-> pos])
         /\ IF fits_in(timestamp_ms_of(t), TimestampBytes)
            THEN /\ payload' = get_timestamp_ms_bytes(t, TimestampBytes)
                                    \o rtcm_packet
                 /\ pc' = StepAfter(pc)
                 /\ UNCHANGED <<lastOffline, left_from, left_via>>
            ELSE /\ payload' = payload
                 /\ pc' = "except_exception"
                 /\ left_from' = pc
                 /\ left_via' = "exception"
    /\ UNCHANGED <<certFiles, srcVars, pos, ser, readerVars, rtcm_packet,
                   netVars, discarded, framed, published, disconnect_attempted,
                   close_attempted, exit_status>>

\* The MQTT client's publish: with qos > 0 the message is always queued and
\* sent, or re-sent, when the session is up; with qos 0 it is dropped when
\* there is no connection.
client_publish(queue, sess, msg, qos) ==
    IF qos = 0 /\ sess # "connected" THEN queue ELSE Append(queue, msg)

\* Line 145: mqtt_client.publish(topic, payload, qos=1) returns.
Publish ==
    /\ pc = "publish"
    /\ published' = Append(published, payload)
    /\ lastOffline' = IF session = "connected" THEN lastOffline
                      ELSE Len(published) + 1
    /\ outQueue' = client_publish(outQueue, session, payload, PublishQos)
    /\ pc' = StepAfter(pc)
    /\ UNCHANGED <<certFiles, srcVars, pos, ser, readerVars, mainVars, session,
                   loop_running, delivered, discarded, framed,
                   clockLog, endVars>>

\* Line 145 raising (publish rejects the topic or the payload with
\* ValueError): caught at line 146.
PublishRaises ==
    /\ pc = "publish"
    /\ pc' = "except_exception"
    /\ left_from' = pc
    /\ left_via' = "exception"
    /\ UNCHANGED <<lastOffline, certFiles, srcVars, pos, ser, readerVars, mainVars, netVars,
                   histVars, disconnect_attempted, close_attempted, exit_status>>

\* KeyboardInterrupt anywhere in the try body, a blocked read included:
\* caught at line 149.
Interrupt ==
    /\ pc \in TryPcs
    /\ pc' = "except_kbd"
    /\ left_from' = pc
    /\ left_via' = "interrupt"
    /\ UNCHANGED <<lastOffline, certFiles, srcVars, pos, ser, readerVars, mainVars, netVars,
                   histVars, disconnect_attempted, close_attempted, exit_status>>

\* ----------------------------------------------------------------- shutdown
\* Mutation of HandleException: the error is logged and the loop resumed.
HandleExceptionRetry ==
    /\ pc = "except_exception"
    /\ pc' = "scan"
    /\ UNCHANGED <<lastOffline, certFiles, srcVars, pos, ser, readerVars, mainVars, netVars,
                   histVars, endVars>>

\* Lines 146-148: except Exception logs the error.
HandleException ==
    /\ pc = "except_exception"
    /\ pc' = "finally_disconnect"
    /\ UNCHANGED <<lastOffline, certFiles, srcVars, pos, ser, readerVars, mainVars, netVars,
                   histVars, endVars>>

\* Lines 149-152: except KeyboardInterrupt logs and passes.
HandleKeyboardInterrupt ==
    /\ pc = "except_kbd"
    /\ pc' = "finally_disconnect"
    /\ UNCHANGED <<lastOffline, certFiles, srcVars, pos, ser, readerVars, mainVars, netVars,
                   histVars, endVars>>

\* Line 155: mqtt_client.disconnect() returns.
Disconnect ==
    /\ pc = "finally_disconnect"
    /\ disconnect_attempted' = TRUE
    /\ session' = "closed"
    /\ pc' = "finally_close"
    /\ UNCHANGED <<lastOffline, certFiles, srcVars, pos, ser, readerVars, mainVars,
                   loop_running, outQueue, delivered, histVars,
                   left_from, left_via, close_attempted, exit_status>>

\* Line 155 raising: nothing in the finally block catches it, so line 157
\* is skipped and the exception ends the process.
DisconnectRaises ==
    /\ pc = "finally_disconnect"
    /\ disconnect_attempted' = TRUE
    /\ pc' = "stopped"
    /\ exit_status' = 1
    /\ UNCHANGED <<lastOffline, certFiles, srcVars, pos, ser, readerVars, mainVars, netVars,
                   histVars, left_from, left_via, close_attempted>>

\* Line 157: ser.close() returns; the program falls off its end.
CloseSerial ==
    /\ pc = "finally_close"
    /\ close_attempted' = TRUE
    /\ ser' = "closed"
    /\ pc' = "stopped"
    /\ exit_status' = 0
    /\ UNCHANGED <<lastOffline, certFiles, srcVars, pos, readerVars, mainVars, netVars,
                   histVars, left_from, left_via, disconnect_attempted>>

\* Line 157 raising: the exception leaves the finally block.
CloseSerialRaises ==
    /\ pc = "finally_close"
    /\ close_attempted' = TRUE
    /\ pc' = "stopped"
    /\ exit_status' = 1
    /\ UNCHANGED <<lastOffline, certFiles, srcVars, pos, ser, readerVars, mainVars, netVars,
                   histVars, left_from, left_via, disconnect_attempted>>

\* ------------------------------------------- background network activity
\* The connection to the broker drops while the program is in its try body
\* (a loss before or after it changes nothing the program does).
NetDrop ==
    /\ pc \in TryPcs
    /\ session = "connected"
    /\ session' = "lost"
    /\ UNCHANGED <<lastOffline, pc, certFiles, srcVars, pos, ser, readerVars, mainVars,
                   loop_running, outQueue, delivered, histVars, endVars>>

\* The network thread started by loop_start reconnects.
NetReconnect ==
    /\ session = "lost"
    /\ loop_running
    /\ session' = "connected"
    /\ UNCHANGED <<lastOffline, pc, certFiles, srcVars, pos, ser, readerVars, mainVars,
                   loop_running, outQueue, delivered, histVars,
                   endVars>>

\* The network thread sends the oldest queued payload to the broker.
NetSend ==
    /\ session = "connected"
    /\ loop_running
    /\ outQueue # <<>>
    /\ delivered' = Append(delivered, Head(outQueue))
    /\ outQueue' = Tail(outQueue)
    /\ UNCHANGED <<lastOffline, pc, certFiles, srcVars, pos, ser, readerVars, mainVars,
                   session, loop_running, histVars, endVars>>

\* ------------------------------------------------------------ specification
Next ==
    \/ ParseArgs \/ OpenSerial \/ OpenSerialFails
    \/ CreateClient \/ CreateClientFails \/ StartupInterrupt
    \/ FlushOutput \/ LoopStart \/ Sleep
    \/ ScanSkip \/ ScanEmpty \/ ScanFound
    \/ DeviceEnds \/ ReadLength \/ ReadMessage \/ ReadCrc \/ ReadRaises
    \/ TakeTimestamp \/ Publish \/ PublishRaises \/ Interrupt
    \/ HandleException \/ HandleKeyboardInterrupt
    \/ Disconnect \/ DisconnectRaises \/ CloseSerial \/ CloseSerialRaises
    \/ NetDrop \/ NetReconnect \/ NetSend

Spec == Init /\ [][Next]_vars

\* The streams of complete frames: how the stream ends plays no part in
\* what the transport does with the payloads handed to it.
LiveInit ==
    /\ Init
    /\ \E n \in 0..MaxFrames :
         \E g \in GarbageSet, fs \in [1..n -> FrameSet] :
             stream = BuildStream(n, g, fs, <<>>)

\* A step of the main thread that needs nothing from outside to happen: the
\* next statement runs, a pending read returns or raises, a handler or the
\* finally block goes on.
ProgramStep ==
    \/ ParseArgs \/ OpenSerial \/ CreateClient
    \/ FlushOutput \/ LoopStart \/ Sleep
    \/ ScanSkip \/ ScanEmpty \/ ScanFound
    \/ ReadLength \/ ReadMessage \/ ReadCrc \/ ReadRaises
    \/ TakeTimestamp \/ Publish
    \/ HandleException \/ HandleKeyboardInterrupt
    \/ Disconnect \/ CloseSerial

\* The interpreter keeps running the main thread: whenever it has a step to
\* take, it takes one.  Nothing is assumed about interrupts, failures or the
\* network.
ProgressSpec == LiveInit /\ [][Next]_vars /\ WF_vars(ProgramStep)

\* Length fields at the ends of the 10-bit range, with and without reserved
\* bits set: <<first byte, second byte, payload length>>.
BoundaryHeaders ==
    { <<0, 0, 0>>, <<252, 0, 0>>, <<3, 255, LengthMask>>,
      <<255, 255, LengthMask>>, <<5, 0, 256>> }

\* A frame with the length field h[1], h[2] and h[3] payload bytes, the
\* first of them 0xD3.
BoundaryFrame(h) ==
    <<Preamble, h[1], h[2]>> \o [i \in 1..h[3] |-> (i * Preamble) % 256]
        \o <<1, 2, 3>>

\* The device holds one frame with a boundary length field, stray bytes in
\* front of it or not.
ReaderInit ==
    /\ \E h \in BoundaryHeaders, g \in GarbageSet :
         stream = g \o BoundaryFrame(h)
    /\ InitRest

ReaderSpec == ReaderInit /\ [][Next]_vars

\* The background network thread keeps running: once started it reconnects
\* a lost session, and it sends what is queued whenever the session is up
\* often enough.
LiveSpec ==
    LiveInit /\ [][Next]_vars /\ WF_vars(NetReconnect) /\ SF_vars(NetSend)


\* ================================================================== claims
\* A byte sequence that is exactly one frame: 0xD3, two length bytes whose
\* low 10 bits give L, L payload bytes, 3 trailing bytes.
FrameLength(s) == (s[2] * 256 + s[3]) % 1024
WellFormedFrame(s) ==
    /\ Len(s) >= 6
    /\ s[1] = 211
    /\ Len(s) = 6 + FrameLength(s)

\* The frame part of a published payload: what follows the 16 timestamp bytes.
FrameOf(p) == SubSeq(p, 17, Len(p))
\* The timestamp part of a published payload.
StampOf(p) == SubSeq(p, 1, 16)

\* Number of bytes of s in front of its first 0xD3 (all of s if it has none).
GarbageLen(s) ==
    IF \E i \in 1..Len(s) : s[i] = 211
    THEN (CHOOSE i \in 1..Len(s) : s[i] = 211 /\ \A j \in 1..(i - 1) : s[j] # 211) - 1
    ELSE Len(s)

\* C1: when the byte stream is exactly one well-formed frame, the first call
\* of read_rtcm_packet runs into no shortage of bytes and returns a byte
\* sequence equal, byte for byte, to the stream.
C1_SingleFrameRoundTrip ==
    WellFormedFrame(stream) =>
        /\ Len(framed) = 0 => eofMode = "live"
        /\ Len(framed) >= 1 =>
              /\ framed[1].frame = stream
              /\ framed[1].endAt = Len(stream)

\* C1 witness: the one-frame stream with all reserved bits set has been
\* returned whole.
C1_Witness ==
    /\ WellFormedFrame(stream)
    /\ stream[2] = 252
    /\ Len(framed) = 1
    /\ framed[1].frame = stream
    /\ rtcm_packet = stream

\* C4: when the stream is k bytes without 0xD3 followed by a well-formed
\* frame (and anything after it), the first frame returned is that frame,
\* the k bytes are exactly what the scan discarded before it, no read fails
\* on the way, and the published payload carries the frame alone.
C4_GarbageBeforeFrame ==
    LET k == GarbageLen(stream)
        rest == SubSeq(stream, k + 1, Len(stream))
    IN (Len(rest) >= 6 /\ Len(rest) >= 6 + FrameLength(rest)) =>
        LET frame == SubSeq(rest, 1, 6 + FrameLength(rest))
        IN /\ Len(framed) = 0 =>
                 /\ eofMode = "live"
                 /\ left_via # "exception"
                 /\ discarded = SubSeq(stream, 1, Min(k, pos))
           /\ Len(framed) >= 1 =>
                 /\ framed[1].frame = frame
                 /\ framed[1].endAt = k + Len(frame)
                 /\ SubSeq(discarded, 1, k) = SubSeq(stream, 1, k)
                 /\ Len(discarded) >= k
           /\ Len(published) >= 1 => FrameOf(published[1]) = frame

\* C4 witness: two stray bytes were discarded and the frame behind them was
\* returned and published.
C4_Witness ==
    /\ GarbageLen(stream) = 2
    /\ discarded = <<255, 0>>
    /\ Len(framed) = 1
    /\ WellFormedFrame(framed[1].frame)
    /\ Len(published) = 1
    /\ FrameOf(published[1]) = SubSeq(stream, 3, Len(stream))


\* C2: when the source ends for good after a preamble was found and before
\* the length field, payload and check value are all read, the read fails:
\* every frame returned by read_rtcm_packet, and every frame published, has
\* its full 6 + L bytes, and a read that ran out of bytes inside a frame
\* takes the program out of the streaming loop through the error handler.
C2_NoShortFrame ==
    /\ \A i \in 1..Len(framed) : WellFormedFrame(framed[i].frame)
    /\ \A i \in 1..Len(published) : WellFormedFrame(FrameOf(published[i]))
    /\ (eofMode = "short" /\ pc \in {"timestamp", "publish"}) =>
          WellFormedFrame(rtcm_packet)


\* The slice of the stream a returned frame was read from.
SliceOf(f) == SubSeq(stream, f.endAt - Len(f.frame) + 1, f.endAt)

\* C3: the publish calls carry the frames in the order read_rtcm_packet
\* returned them, none skipped, duplicated or reordered: the i-th publish
\* carries the i-th frame, at most one returned frame is still unpublished,
\* none is while the next read runs, and the frames themselves are
\* successive, non-overlapping slices of the byte stream.
C3_PublishInFramingOrder ==
    /\ Len(published) <= Len(framed)
    /\ Len(framed) <= Len(published) + 1
    /\ pc \in {"scan", "readlen", "readmsg", "readcrc"} =>
          Len(published) = Len(framed)
    /\ \A i \in 1..Len(published) : FrameOf(published[i]) = framed[i].frame
    /\ \A i \in 1..Len(framed) :
          /\ SliceOf(framed[i]) = framed[i].frame
          /\ i > 1 => framed[i].endAt - Len(framed[i].frame) >= framed[i - 1].endAt

\* C3 witness: a stream of two different frames back to back, both
\* published, first the first and then the second.
C3_Witness ==
    /\ Len(published) = 2
    /\ WellFormedFrame(FrameOf(published[1]))
    /\ WellFormedFrame(FrameOf(published[2]))
    /\ FrameOf(published[1]) # FrameOf(published[2])
    /\ stream = FrameOf(published[1]) \o FrameOf(published[2])

\* C8: the clock is read once per frame and only after the frame is
\* complete: the i-th clock read happens when exactly i frames have been
\* returned and the cursor still sits at the end of frame i, no clock read
\* is pending or taken while a read is in progress, and the i-th publish
\* carries the stamp of the i-th clock read.
C8_ClockReadAfterFrame ==
    /\ Len(clockLog) <= Len(framed)
    /\ Len(framed) <= Len(clockLog) + 1
    /\ pc \in {"scan", "readlen", "readmsg", "readcrc"} =>
          Len(clockLog) = Len(framed)
    /\ \A i \in 1..Len(clockLog) :
          /\ clockLog[i].framesDone = i
          /\ clockLog[i].cursor = framed[i].endAt
    /\ Len(published) <= Len(clockLog)
    /\ \A i \in 1..Len(published) :
          StampOf(published[i]) =
              get_timestamp_ms_bytes(clockLog[i].clock_us, TimestampBytes)

\* C8 witness: two frames published with two different clock readings.
C8_Witness ==
    /\ Len(published) = 2
    /\ Len(clockLog) = 2
    /\ clockLog[1].clock_us # clockLog[2].clock_us
    /\ StampOf(published[1]) # StampOf(published[2])
    /\ pc = "scan"

\* Byte i (1 = first) of the width-byte big-endian encoding of v, for the
\* values below 256^4 that the clock readings produce.
BigEndianByte(v, i, width) ==
    IF width - i > 3 THEN 0 ELSE (v \div (256 ^ (width - i))) % 256

RECURSIVE BytesLeq(_, _)
BytesLeq(a, b) ==
    IF a = <<>> \/ b = <<>> THEN TRUE
    ELSE IF Head(a) # Head(b) THEN Head(a) < Head(b)
    ELSE BytesLeq(Tail(a), Tail(b))

\* C10 as stated: the timestamp decoded from each published payload is at
\* least the timestamp decoded from the payload published before it.
C10_StampsNonDecreasing ==
    \A i \in 1..(Len(published) - 1) :
        BytesLeq(StampOf(published[i]), StampOf(published[i + 1]))

\* C10 amended: the timestamp decoded from each published payload is at
\* least that of the payload before it whenever the wall clock did not read
\* lower at the later capture than at the earlier one.
C10_StampsFollowClock ==
    \A i \in 1..(Len(published) - 1) :
        clockLog[i].clock_us <= clockLog[i + 1].clock_us =>
            BytesLeq(StampOf(published[i]), StampOf(published[i + 1]))

\* C10 witness: two payloads published, the clock having advanced from
\* 258 ms to 513 ms between the captures.
C10_Witness ==
    /\ Len(published) = 2
    /\ clockLog[1].clock_us < clockLog[2].clock_us
    /\ StampOf(published[1]) # StampOf(published[2])
    /\ BytesLeq(StampOf(published[1]), StampOf(published[2]))


\* C5: whenever the program leaves the streaming loop, by an interrupt or
\* by a failure of the read, timestamp or publish step, it has attempted
\* both the transport disconnect and the close of the byte source by the
\* time it has stopped.
C5_DrainBeforeStopped ==
    (pc = "stopped" /\ left_from \in StreamingPcs) =>
        (disconnect_attempted /\ close_attempted)

\* C6: the two shutdown steps are independent and contained: once the
\* disconnect has been attempted (failed or not) and the program has
\* stopped, the close of the byte source has been attempted too, and the
\* program ended normally.
C6_DrainStepsContained ==
    (pc = "stopped" /\ disconnect_attempted) =>
        (close_attempted /\ exit_status = 0)

AllCredentials == {"device.crt", "device.key", "AmazonRootCA1.pem"}

\* C11: when any of the three credential files is missing, the arguments
\* are rejected (exit status 2) with the serial port never opened, no
\* session attempted and nothing streamed; the program gets past argument
\* parsing, to where the connection is attempted, only with all three
\* found.
C11_CredentialsBeforeConnect ==
    /\ (pc # "parse_args" /\ certFiles # AllCredentials) =>
          /\ pc = "stopped"
          /\ exit_status = 2
          /\ ser = "unopened"
          /\ session = "none"
          /\ ~loop_running
          /\ pos = 0
          /\ published = <<>>
    /\ (pc \in {"open", "connect"} \cup TryPcs \cup DrainingPcs
          \/ session # "none" \/ ser # "unopened"
          \/ exit_status \notin {-1, 2}) =>
          certFiles = AllCredentials

\* C11 witness: the certificate and the key are there, the root certificate
\* is not, and the run has ended at argument parsing.
C11_Witness ==
    /\ certFiles = {"device.crt", "device.key"}
    /\ pc = "stopped"
    /\ exit_status = 2
    /\ session = "none"

\* The startup sequence has been carried out up to the settling interval.
StartupDone ==
    /\ ser # "unopened"
    /\ session # "none"
    /\ loop_running

\* C12: a byte is read or a publish issued only with the source opened,
\* the session established and the network task started; each of these
\* steps is taken only after the one before it; Streaming is entered only
\* from the settling interval; and a run whose session was never
\* established ends having read and published nothing.
C12_StartupOrder ==
    /\ [](/\ (pc \in StreamingPcs \/ pos > 0 \/ framed # <<>>
                \/ published # <<>> \/ clockLog # <<>>) => StartupDone
          /\ pc \in StreamingPcs => ser = "open"
          /\ loop_running => session # "none"
          /\ session # "none" => ser # "unopened"
          /\ (pc = "stopped" /\ session = "none") =>
                (pos = 0 /\ framed = <<>> /\ published = <<>>
                   /\ left_from = ""))
    /\ [][/\ (pc' \in StreamingPcs /\ pc \notin StreamingPcs) => pc = "sleep"
          /\ (ser = "unopened" /\ ser' # "unopened") =>
                (session = "none" /\ ~loop_running)
          /\ (session = "none" /\ session' # "none") =>
                (ser = "open" /\ ~loop_running /\ pc = "connect")
          /\ (~loop_running /\ loop_running') =>
                (session # "none" /\ pc' = "sleep")
          /\ pc = "stopped" => pc' = "stopped"]_vars

\* C12 witness: the first frame has been read after the whole startup
\* sequence.
C12_Witness ==
    /\ Len(framed) = 1
    /\ pc = "timestamp"
    /\ StartupDone

\* C12 witness for the failed handshake: the run ended at the connection
\* attempt.
C12_WitnessHandshake ==
    /\ pc = "stopped"
    /\ ser = "open"
    /\ session = "none"
    /\ exit_status = 1

\* C13: a run interrupted while Streaming (a blocked read included) is not
\* taken through the fatal-error path and, once Stopped, has gone through
\* both Draining steps and ended with the success status 0.
C13_InterruptIsCleanShutdown ==
    /\ (left_via = "interrupt" /\ left_from \in StreamingPcs) =>
          pc \in {"except_kbd", "finally_disconnect", "finally_close",
                  "stopped"}
    /\ (pc = "stopped" /\ left_via = "interrupt"
          /\ left_from \in StreamingPcs) =>
          /\ disconnect_attempted
          /\ close_attempted
          /\ exit_status = 0

\* C14: a run that left Streaming through a failure of read, timestamp or
\* publish does not end with the status of a clean interrupt-driven
\* shutdown, which is 0 (the program falls off its end at line 157).
C14_FatalStatusDiffers ==
    (pc = "stopped" /\ left_via = "exception"
       /\ left_from \in StreamingPcs) => exit_status # 0

\* The low 10 bits of the big-endian 16-bit value of the bytes hi, lo.
Low10(hi, lo) == ((hi % 4) * 256) + lo

\* The frame f, ending at stream offset endAt, was read with all of its
\* bytes there: length field, payload and check value.
ReadInFull(f, endAt) ==
    /\ Len(f) >= 3
    /\ (endAt - Len(f)) + 6 + Low10(f[2], f[3]) <= Len(stream)
    /\ stream[(endAt - Len(f)) + 1] = 211

\* C15: the payload length the reader uses is the low 10 bits of the two
\* bytes after the preamble, whatever the 6 reserved bits; a frame read in
\* full starts with 0xD3, keeps the two length bytes as they are in the
\* stream and is 6 + L bytes long: 6 bytes for L = 0, 1029 for L = 1023.
C15_LengthIsLowTenBits ==
    /\ (pc \in {"readmsg", "readcrc"} /\ Len(reserved_and_length) = 2) =>
          message_length
             = Low10(reserved_and_length[1], reserved_and_length[2])
    /\ \A i \in 1..Len(framed) :
         LET f == framed[i].frame
             start == framed[i].endAt - Len(f)
         IN  ReadInFull(f, framed[i].endAt) =>
               /\ f[1] = 211
               /\ f[2] = stream[start + 2]
               /\ f[3] = stream[start + 3]
               /\ Len(f) = 6 + Low10(f[2], f[3])
               /\ Low10(f[2], f[3]) = 0 => Len(f) = 6
               /\ Low10(f[2], f[3]) = 1023 => Len(f) = 1029

\* C15 witness: a frame with every reserved bit set and L = 1023 has been
\* returned.
C15_Witness ==
    /\ Len(framed) = 1
    /\ framed[1].frame[2] = 255
    /\ framed[1].frame[3] = 255
    /\ Len(framed[1].frame) = 1029
    /\ pc = "timestamp"

\* C15 witness for L = 0 with reserved bits set.
C15_WitnessEmpty ==
    /\ Len(framed) = 1
    /\ framed[1].frame[2] = 252
    /\ Len(framed[1].frame) = 6

\* Stream offset at which the scan for the i-th frame starts: the start of
\* the stream, or where the frame before it ended.
ScanStart(i) == IF i = 1 THEN 0 ELSE framed[i - 1].endAt

\* Stream offset of the first 0xD3 at or after the i-th scan start (the
\* stream's length if there is none).
FrameStart(i) ==
    ScanStart(i) + GarbageLen(SubSeq(stream, ScanStart(i) + 1, Len(stream)))

\* Stream offset just past the check value of a frame starting at offset s;
\* past the stream's end when the stream ends inside that frame.
FrameEnd(s) ==
    IF s + 3 <= Len(stream)
    THEN s + 6 + Low10(stream[s + 2], stream[s + 3])
    ELSE Len(stream) + 1

\* C16: when read_rtcm_packet has returned a frame the cursor is on the byte
\* right after its 3-byte check value; each frame is the stream's bytes from
\* the first 0xD3 at or after the end of the frame before it, so a 0xD3
\* inside a payload or check value never starts a frame, and the scan for
\* the next frame has not gone past the first 0xD3 after the last one.
C16_CursorAfterCheckValue ==
    /\ (pc \in {"timestamp", "publish"} /\ framed # <<>>) =>
          pos = framed[Len(framed)].endAt
    /\ \A i \in 1..Len(framed) :
         FrameEnd(FrameStart(i)) <= Len(stream) =>
            /\ framed[i].endAt = FrameEnd(FrameStart(i))
            /\ framed[i].frame
                 = SubSeq(stream, FrameStart(i) + 1, FrameEnd(FrameStart(i)))
    /\ pc = "scan" =>
          /\ pos >= ScanStart(Len(framed) + 1)
          /\ pos <= FrameStart(Len(framed) + 1)

\* C16 witness: a second frame has been returned after a first one whose
\* payload or check value holds a 0xD3, and the cursor is at its end.
C16_Witness ==
    /\ Len(framed) = 2
    /\ pc = "timestamp"
    /\ pos = framed[2].endAt
    /\ \E j \in 2..Len(framed[1].frame) : framed[1].frame[j] = 211
    /\ framed[2].frame = SubSeq(stream, framed[1].endAt + 1, framed[2].endAt)

\* C17: once Streaming has been left (through a failure of read, timestamp
\* or publish, or an interrupt), no step reads a byte, frames or publishes
\* anything or reopens the byte source, and every step of the program goes
\* to a Draining position or to Stopped, which is never left.
C17_NoStreamingAfterLeaving ==
    [][/\ left_from # "" =>
            /\ pos' = pos
            /\ framed' = framed
            /\ discarded' = discarded
            /\ clockLog' = clockLog
            /\ published' = published
            /\ pc' \in DrainingPcs \cup {"stopped"}
            /\ ser' = "open" => ser = "open"
            /\ left_from' = left_from
       /\ pc \in DrainingPcs => pc' \in DrainingPcs \cup {"stopped"}
       /\ pc = "stopped" => pc' = "stopped"]_vars

\* C17 witness: a publish failed after one frame had been published, and
\* the run went through Draining to Stopped.
C17_Witness ==
    /\ pc = "stopped"
    /\ left_via = "exception"
    /\ left_from = "publish"
    /\ Len(published) = 1
    /\ Len(framed) = 2
    /\ pos < Len(stream)

\* Number of bytes discarded by the scan for the i-th frame.
GapLen(i) == (framed[i].endAt - Len(framed[i].frame)) - ScanStart(i)

\* The discarded bytes and the returned frames from the i-th frame on, put
\* back in the order they were consumed; off discarded bytes belong to
\* earlier scans.
RECURSIVE Interleaved(_, _)
Interleaved(i, off) ==
    IF i > Len(framed)
    THEN SubSeq(discarded, off + 1, Len(discarded))
    ELSE SubSeq(discarded, off + 1, off + GapLen(i)) \o framed[i].frame
            \o Interleaved(i + 1, off + GapLen(i))

\* The bytes of the frame being read that the current call has consumed.
InProgress ==
    CASE pc = "readlen" -> preamble
      [] pc = "readmsg" -> preamble \o reserved_and_length
      [] pc = "readcrc" -> preamble \o reserved_and_length \o message
      [] OTHER          -> <<>>

\* C18: while the source has not ended, the consumed prefix of the stream is
\* the discarded bytes and the returned frames interleaved in order (plus
\* the bytes of the frame being read), no discarded byte is 0xD3, and each
\* returned frame, and the frame being read, begins at the first 0xD3 at or
\* after its scan's start.
C18_ByteConservation ==
    (eofMode = "live" /\ pc \in StreamingPcs) =>
       /\ Interleaved(1, 0) \o InProgress = SubSeq(stream, 1, pos)
       /\ \A j \in 1..Len(discarded) : discarded[j] # 211
       /\ \A i \in 1..Len(framed) :
            /\ GapLen(i) >= 0
            /\ framed[i].frame[1] = 211
            /\ framed[i].endAt - Len(framed[i].frame) = FrameStart(i)
       /\ pc \in {"readlen", "readmsg", "readcrc"} =>
            /\ preamble = <<211>>
            /\ pos - Len(InProgress) = FrameStart(Len(framed) + 1)

\* C18 witness: two frames have been returned, with bytes discarded in
\* front of the second, by a reader that never ran out of bytes.
C18_Witness ==
    /\ eofMode = "live"
    /\ pc = "timestamp"
    /\ Len(framed) = 2
    /\ Len(discarded) = 2
    /\ GapLen(1) = 0
    /\ GapLen(2) = 2

\* C19: whenever the process has terminated with the byte source opened,
\* a close of the byte source has been attempted; stated for the runs that
\* end while the session is being established (the source is open, the
\* session was never there, Streaming was never entered).
C19_CloseAfterFailedConnect ==
    (pc = "stopped" /\ ser # "unopened" /\ session = "none"
       /\ left_from = "") => close_attempted

\* The source is exhausted while the reader scans for a preamble: every
\* read from now on returns no byte.
ExhaustedInScan ==
    /\ pc = "scan"
    /\ eofMode = "short"
    /\ Avail = 0

\* C20: when the byte source is exhausted for good while the reader scans
\* for a preamble, the reader does not loop forever: the supervisor
\* eventually reaches Draining or Stopped.
C20_ExhaustedScanEnds ==
    ExhaustedInScan ~> (pc \in DrainingPcs \cup {"stopped"})

====
